---- MODULE Spec2Model ----
(***************************************************************************)
(* zRadioModern: the playback / recording engine (zr_core/player.py over   *)
(* zr_core/vlc_wrapper.py).                                                *)
(*                                                                         *)
(* Threads of the program: the caller's thread (GUI / script thread), one  *)
(* worker per asynchronous play(), stop() and start_recording(), and the   *)
(* scheduler thread.  A step of the model is the code a thread runs        *)
(* between two points where it can be descheduled for a long time: a       *)
(* thread start, a time.sleep and the end of the thread.  The scheduler    *)
(* takes one step per entry of its loop.  Every `with self._lock` block    *)
(* lies inside one step, so the lock is free at every step boundary and    *)
(* needs no variable.  The calls made inside a step (logging, the          *)
(* backend's play, stop and release) return at once; a thread switch       *)
(* inside a step gives no outcome that some order of whole steps does not  *)
(* give.  The backend's stop() and release() are taken not to raise.       *)
(*                                                                         *)
(* ret and cb describe the step just taken: what the call returned (the    *)
(* result of the backend call for a recording thread) and the              *)
(* notifications (`if self._on_x: self._on_x(...)`) it reached, in order.   *)
(***************************************************************************)
EXTENDS Integers, Sequences, FiniteSets

\* ---------------------------------------------------------------- bounds
MaxTime == 2
MaxThreads == 2
MaxSched == 2
MaxSubs == 2
MaxEmits == 2
MaxServers == 3
MaxInstances == 3
MaxFavs == 3
MaxCats == 2

\* ------------------------------------------------------------- constants
MaxVolume == 100
DefaultVolume == 50
DefaultStep == 5
ScriptStep == 5
MaxRetries == 3

\* ---------------------------------------------------------------- values
\* the event bus: event types, emitted data, and callables named by what
\* they do when called: return, raise, call their own cancel function, call
\* unsubscribe_all for the event type
EventTypes == {"e1", "e2"}
Data == {"d1", "d2"}
Callables == {"ok", "raise", "cancel", "clear"}
\* subscribe(event_type, callback, weak): <<callable, nothing else references
\* it, weak>>; a lambda or bound method with the default weak = True, a
\* function the subscriber keeps, the same with weak = False, and the
\* callables that raise or call back into the bus
SubscribeArgs == {<<"ok", TRUE, TRUE>>, <<"ok", FALSE, TRUE>>,
                  <<"ok", FALSE, FALSE>>, <<"raise", FALSE, TRUE>>,
                  <<"cancel", FALSE, TRUE>>, <<"clear", FALSE, TRUE>>}
\* no emit() holds the lock
NoEmit == [on |-> FALSE]

\* the API client: server URLs, the lists of servers a DNS discovery can
\* return (no URL twice, never empty), and what one HTTP attempt can end in:
\* a decoded answer, a connection error or timeout (an exception without a
\* response), or an HTTP error status
Servers == {"s1", "s2", "s3"}
ServerLists ==
    {l \in UNION {[1..n -> Servers] : n \in 1..MaxServers} :
        \A i, j \in 1..Len(l) : i # j => l[i] # l[j]}
Statuses == {404, 499, 500, 503, 599}
Outcomes ==
    {[kind |-> k, status |-> 0] : k \in {"ok", "connection", "timeout"}}
        \cup {[kind |-> "http", status |-> c] : c \in Statuses}
NoError == [kind |-> "none", status |-> 0]

\* the plugin manager: plugin ids, and what the plugin's code does when
\* load_plugin runs it: on_load returns True, returns False or raises, or
\* the constructor raises; likewise on_unload
PluginIds == {"alpha", "beta"}
LoadArgs == {"True", "False", "raise", "init_raise"}
UnloadArgs == {"True", "False", "raise"}

\* the database: ids of favorites and categories (AUTOINCREMENT: 1, 2, ...
\* and never used again), names of favorites by their place in the
\* collation, orders update_favorite writes, and the directions of
\* move_favorite
FavIds == 1..MaxFavs
CatIds == 1..MaxCats
FavNames == {1, 2}
OrderArgs == {0, 1}
Directions == {-1, 1}
NoMove == [op |-> "none"]
\* category_id of a favorite without category: NULL
Null == 0
\* what a database call returns: a bool or a row id
DbBool(b) == [type |-> "bool", value |-> IF b THEN 1 ELSE 0]

DbInt(n) == [type |-> "int", value |-> n]

DbTrue == DbBool(TRUE)

DbFalse == DbBool(FALSE)

\* arguments of the volume calls
VolumeArgs == {-7, 0, 3, 100, 101, 250}
StepArgs == {-200, -5, 0, 1, DefaultStep, 200}
None == "None"
Urls == {"u1", "u2"}
PlayArgs == Urls \cup {""}
Stations == {"s1"}
RecordArgs == {"", "u1"}
\* the scheduling dialog refuses an empty URL
SchedUrls == {"u1"}
Names == {"n1"}
Paths == {"p1", "p2"}
Times == 0..MaxTime
PlayerState == {"STOPPED", "PLAYING", "BUFFERING", "PAUSED", "ERROR"}
RecordingState == {"IDLE", "RECORDING", "SCHEDULED"}

VARIABLES
    player,                 \* AudioPlayer._player is not None
    state,                  \* AudioPlayer._state
    current_url,            \* AudioPlayer._current_url
    current_station,        \* AudioPlayer._current_station
    vlc_url,                \* VLCPlayer._current_url ("" when not _playing)
    play_threads,           \* live _play_async threads: <<url, pc>> -> count
    stop_threads,           \* live _stop_async threads
    recording_state,        \* AudioPlayer._recording_state
    vlc_recording,          \* VLCPlayer._recording
    vlc_record_file,        \* VLCPlayer._record_file
    vlc_record_player,      \* VLCPlayer._record_player (0 = None)
    rec_players,            \* libvlc record players that are capturing
    rec_threads,            \* live _start_recording_async threads
    next_rec,               \* number of recording threads started so far
    scheduled_recordings,   \* AudioPlayer._scheduled_recordings
    next_sched,             \* number of ScheduledRecording objects created
    sched_pc,               \* scheduler thread: "sleep", "loop"
    sched_now,              \* `now` of the current (or last) poll
    sched_idx,              \* position of the for loop in the list
    now,                    \* datetime.now()
    ret, cb,                \* the step just taken
    stop_clean,             \* a stop() started its worker and no play() or
                            \* station assignment was made since
    reload_pc,              \* reload(): "idle", "sleep" (in time.sleep), "done"
    reload_url,             \* reload(): its local `url`
    reload_station,         \* reload(): its local `station`
    volume,                 \* AudioPlayer._volume
    vol_ret,                \* what the volume call just made returned (-1: None)
    bus_subs,               \* EventBus._subscribers: event type -> list of refs
    bus_tokens,             \* the cancel functions subscribe() returned so far
    bus_enabled,            \* EventBus._enabled
    emit_workers,           \* emit_async threads that have not begun emit()
    emit_pend,              \* emit() calls past the _enabled test, before the lock
    emit_cur,               \* the emit() call that holds the lock
    bus_ret,                \* what the last emit() to end returned (-1: none yet)
    api_servers,            \* RadioBrowserAPI._available_servers
    api_base,               \* RadioBrowserAPI._base_url
    api_pc,                 \* "new": no client yet; else the request: "idle",
                            \* "running", "returned", "raised"
    api_retry,              \* retry_count of the innermost _get of the request
    api_tries,              \* HTTP attempts the request has made
    api_err,                \* the failure of the last attempt of the request
    plug_classes,           \* keys of PluginManager._plugin_classes
    plug_plugins,           \* PluginManager._plugins: id -> instance, 0: absent
    plug_made,              \* plugin instances created so far
    plug_onload,            \* on_load calls made so far
    plug_emits,             \* the emit calls of the last call, each with the
                            \* keys of _plugins at that moment
    plug_ret,               \* what the last call returned
    db_favs,                \* rows of the table favorites
    db_cats,                \* ids of the rows of the table categories
    db_next_fav,            \* the next id of favorites
    db_next_cat,            \* the next id of categories
    db_last,                \* the last call if it was move_favorite, with the
                            \* ids in get_favorites() order before it
    db_ret                  \* what the last database call returned (at first 0)

vars == <<player, state, current_url, current_station, vlc_url, play_threads,
          stop_threads, recording_state, vlc_recording, vlc_record_file,
          vlc_record_player, rec_players, rec_threads, next_rec,
          scheduled_recordings, next_sched, sched_pc, sched_now, sched_idx,
          now, ret, cb, stop_clean,
          reload_pc, reload_url, reload_station, volume, vol_ret,
          bus_subs, bus_tokens, bus_enabled, emit_workers, emit_pend,
          emit_cur, bus_ret,
          api_servers, api_base, api_pc, api_retry, api_tries, api_err,
          plug_classes, plug_plugins, plug_made, plug_onload, plug_emits,
          plug_ret,
          db_favs, db_cats, db_next_fav, db_next_cat, db_last, db_ret>>

\* AudioPlayer with its backend, threads and scheduler
coreVars == <<player, state, current_url, current_station, vlc_url,
              play_threads, stop_threads, recording_state, vlc_recording,
              vlc_record_file, vlc_record_player, rec_players, rec_threads,
              next_rec, scheduled_recordings, next_sched, sched_pc, sched_now,
              sched_idx, now, stop_clean>>
reloadVars == <<reload_pc, reload_url, reload_station>>
\* what the steps of play, stop, recording and the scheduler leave alone
volVars == <<volume, vol_ret>>
\* the components beside the player's playback, recording and scheduling
busVars == <<bus_subs, bus_tokens, bus_enabled, emit_workers, emit_pend,
            emit_cur, bus_ret>>
apiVars == <<api_servers, api_base, api_pc, api_retry, api_tries, api_err>>
plugVars == <<plug_classes, plug_plugins, plug_made, plug_onload, plug_emits,
             plug_ret>>
dbVars == <<db_favs, db_cats, db_next_fav, db_next_cat, db_last, db_ret>>
nonPlayerVars == <<volVars, busVars, apiVars, plugVars, dbVars>>
extVars == <<reloadVars, nonPlayerVars>>
\* the player's playback, recording and scheduling
playerVars == <<coreVars, reloadVars, ret, cb>>
\* what the volume calls leave alone
othersVol == <<playerVars, busVars, apiVars, plugVars, dbVars>>
\* what the event bus leaves alone
othersBus == <<playerVars, volVars, apiVars, plugVars, dbVars>>
\* what the API client leaves alone
othersApi == <<playerVars, volVars, busVars, plugVars, dbVars>>
\* what the plugin manager leaves alone
othersPlug == <<playerVars, volVars, busVars, apiVars, dbVars>>
\* what the database calls leave alone
othersDb == <<playerVars, volVars, busVars, apiVars, plugVars>>

playVars == <<player, state, current_url, current_station, vlc_url,
              play_threads, stop_threads>>
recVars == <<recording_state, vlc_recording, vlc_record_file,
             vlc_record_player, rec_players, rec_threads, next_rec>>
schedVars == <<scheduled_recordings, next_sched, sched_pc, sched_now,
               sched_idx>>

PlayPcs == {"start", "sleep"}
PlayThreadKinds == Urls \X PlayPcs

RECURSIVE SumOver(_, _)
SumOver(f, S) ==
    IF S = {} THEN 0
    ELSE LET x == CHOOSE y \in S : TRUE IN f[x] + SumOver(f, S \ {x})

LivePlayThreads == SumOver(play_threads, PlayThreadKinds)

\* no RadioBrowserAPI object yet
InitApi ==
    /\ api_servers = <<>>
    /\ api_base = ""
    /\ api_pc = "new"
    /\ api_retry = 0
    /\ api_tries = 0
    /\ api_err = NoError

\* AudioPlayer.__init__, EventBus.__init__, PluginManager.__init__, and
\* DatabaseManager._init_database on a new file
Init ==
    /\ player = FALSE
    /\ state = "STOPPED"
    /\ current_url = ""
    /\ current_station = None
    /\ vlc_url = ""
    /\ play_threads = [k \in PlayThreadKinds |-> 0]
    /\ stop_threads = 0
    /\ recording_state = "IDLE"
    /\ vlc_recording = FALSE
    /\ vlc_record_file = ""
    /\ vlc_record_player = 0
    /\ rec_players = {}
    /\ rec_threads = {}
    /\ next_rec = 0
    /\ scheduled_recordings = <<>>
    /\ next_sched = 0
    /\ sched_pc = "sleep"
    /\ sched_now = 0
    /\ sched_idx = 1
    /\ now = 0
    /\ ret = None
    /\ cb = <<>>
    /\ stop_clean = FALSE
    /\ reload_pc = "idle"
    /\ reload_url = ""
    /\ reload_station = None
    /\ volume = DefaultVolume
    /\ vol_ret = -1
    /\ bus_subs = [ev \in EventTypes |-> <<>>]
    /\ bus_tokens = <<>>
    /\ bus_enabled = TRUE
    /\ emit_workers = {}
    /\ emit_pend = {}
    /\ emit_cur = NoEmit
    /\ bus_ret = -1
    /\ InitApi
    /\ plug_classes = {}
    /\ plug_plugins = [id \in PluginIds |-> 0]
    /\ plug_made = 0
    /\ plug_onload = 0
    /\ plug_emits = <<>>
    /\ plug_ret = None
    /\ db_favs = {}
    /\ db_cats = {}
    /\ db_next_fav = 1
    /\ db_next_cat = 1
    /\ db_last = NoMove
    /\ db_ret = DbInt(0)

\* ------------------------------------------------------------ properties
\* AudioPlayer.is_recording
is_recording ==
    IF player THEN vlc_recording ELSE recording_state = "RECORDING"

\* AudioPlayer.recording_file
recording_file ==
    IF player THEN vlc_record_file ELSE ""

\* AudioPlayer.scheduled_recordings: the active entries, in list order.  The
\* field id stands for the identity of the ScheduledRecording object.
ActiveRecordings ==
    SelectSeq(scheduled_recordings, LAMBDA r : r.active)

\* AudioPlayer.is_playing
is_playing == state \in {"PLAYING", "BUFFERING"}

\* ------------------------------------------------------------- playback
Spawn(threads, kind) == [threads EXCEPT ![kind] = @ + 1]
Retire(threads, kind) == [threads EXCEPT ![kind] = @ - 1]

\* play() without its guard on the empty URL
PlayUnguarded(url) ==
    /\ LivePlayThreads < MaxThreads
    /\ state' = "BUFFERING"
    /\ current_url' = url
    /\ cb' = <<<<"on_state_change", "BUFFERING">>, <<"on_buffering", "">>>>
    /\ play_threads' = IF url \in Urls
                       THEN Spawn(play_threads, <<url, "start">>)
                       ELSE play_threads
    /\ ret' = "True"
    /\ stop_clean' = FALSE
    /\ UNCHANGED <<player, current_station, vlc_url, stop_threads, now>>
    /\ UNCHANGED recVars
    /\ UNCHANGED schedVars
    /\ UNCHANGED extVars

\* AudioPlayer.play(url), async_play = True
Play(url) ==
    IF url = ""
    THEN /\ ret' = "False"
         /\ cb' = <<>>
         /\ UNCHANGED stop_clean
         /\ UNCHANGED playVars
         /\ UNCHANGED recVars
         /\ UNCHANGED schedVars
         /\ UNCHANGED now
         /\ UNCHANGED extVars
    ELSE /\ LivePlayThreads < MaxThreads
         /\ state' = "BUFFERING"
         /\ current_url' = url
         /\ cb' = <<<<"on_state_change", "BUFFERING">>, <<"on_buffering", "">>>>
         /\ play_threads' = Spawn(play_threads, <<url, "start">>)
         /\ ret' = "True"
         /\ stop_clean' = FALSE
         /\ UNCHANGED <<player, current_station, vlc_url, stop_threads, now>>
         /\ UNCHANGED recVars
         /\ UNCHANGED schedVars
         /\ UNCHANGED extVars

\* _play_async up to time.sleep(0.5): _init_player, then self._player.play(url)
\* under the lock.  init_ok: vlc.VLC() could be created; play_ok:
\* VLCPlayer.play did not raise.  VLCPlayer.play stops the previous media
\* first, so a failed play leaves the backend stopped.
PlayThreadStart(url, init_ok, play_ok) ==
    /\ play_threads[<<url, "start">>] > 0
    /\ ret' = None
    /\ IF ~player /\ ~init_ok
       THEN /\ state' = "ERROR"
            /\ cb' = <<<<"on_error", "init">>>>
            /\ play_threads' = Retire(play_threads, <<url, "start">>)
            /\ UNCHANGED <<player, vlc_url>>
       ELSE /\ player' = TRUE
            /\ IF play_ok
               THEN /\ vlc_url' = url
                    /\ play_threads' =
                         Spawn(Retire(play_threads, <<url, "start">>),
                               <<url, "sleep">>)
                    /\ cb' = <<>>
                    /\ UNCHANGED state
               ELSE /\ vlc_url' = ""
                    /\ state' = "ERROR"
                    /\ cb' = <<<<"on_error", "play">>>>
                    /\ play_threads' = Retire(play_threads, <<url, "start">>)
    /\ UNCHANGED <<current_url, current_station, stop_threads, now, stop_clean>>
    /\ UNCHANGED recVars
    /\ UNCHANGED schedVars
    /\ UNCHANGED extVars

\* _play_async after the sleep, leaving the state as it finds it
PlayThreadWakeIdle(url) ==
    /\ play_threads[<<url, "sleep">>] > 0
    /\ play_threads' = Retire(play_threads, <<url, "sleep">>)
    /\ cb' = <<>>
    /\ ret' = None
    /\ UNCHANGED <<player, state, current_url, current_station, vlc_url,
                   stop_threads, now, stop_clean>>
    /\ UNCHANGED recVars
    /\ UNCHANGED schedVars
    /\ UNCHANGED extVars

\* _play_async after time.sleep(0.5)
PlayThreadWake(url) ==
    /\ play_threads[<<url, "sleep">>] > 0
    /\ state' = "PLAYING"
    /\ cb' = <<<<"on_state_change", "PLAYING">>, <<"on_playing", "">>>>
    /\ play_threads' = Retire(play_threads, <<url, "sleep">>)
    /\ ret' = None
    /\ UNCHANGED <<player, current_url, current_station, vlc_url,
                   stop_threads, now, stop_clean>>
    /\ UNCHANGED recVars
    /\ UNCHANGED schedVars
    /\ UNCHANGED extVars

\* current_station setter
SetStation(s) ==
    /\ current_station' = s
    /\ ret' = None
    /\ cb' = <<>>
    /\ stop_clean' = FALSE
    /\ UNCHANGED <<player, state, current_url, vlc_url, play_threads,
                   stop_threads, now>>
    /\ UNCHANGED recVars
    /\ UNCHANGED schedVars
    /\ UNCHANGED extVars

\* AudioPlayer.stop(): returns at once when there is no player, else starts
\* the _stop_async thread
Stop ==
    /\ IF player
       THEN /\ stop_threads < MaxThreads
            /\ stop_threads' = stop_threads + 1
            /\ stop_clean' = TRUE
       ELSE UNCHANGED <<stop_threads, stop_clean>>
    /\ ret' = None
    /\ cb' = <<>>
    /\ UNCHANGED <<player, state, current_url, current_station, vlc_url,
                   play_threads, now>>
    /\ UNCHANGED recVars
    /\ UNCHANGED schedVars
    /\ UNCHANGED extVars

\* AudioPlayer.reload() up to time.sleep(0.2): returns False at once when
\* current_url is empty, else keeps url and station and calls stop()
ReloadStart ==
    /\ reload_pc # "sleep"
    /\ cb' = <<>>
    /\ IF current_url = ""
       THEN /\ ret' = "False"
            /\ UNCHANGED <<stop_threads, stop_clean>>
            /\ UNCHANGED reloadVars
       ELSE /\ ret' = None
            /\ reload_url' = current_url
            /\ reload_station' = current_station
            /\ reload_pc' = "sleep"
            /\ IF player
               THEN /\ stop_threads < MaxThreads
                    /\ stop_threads' = stop_threads + 1
                    /\ stop_clean' = TRUE
               ELSE UNCHANGED <<stop_threads, stop_clean>>
    /\ UNCHANGED <<player, state, current_url, current_station, vlc_url,
                   play_threads, now>>
    /\ UNCHANGED recVars
    /\ UNCHANGED schedVars
    /\ UNCHANGED nonPlayerVars

\* AudioPlayer.reload() after time.sleep(0.2): restores the station and
\* returns self.play(url)
ReloadWake ==
    /\ reload_pc = "sleep"
    /\ LivePlayThreads < MaxThreads
    /\ reload_pc' = "done"
    /\ current_station' = reload_station
    /\ state' = "BUFFERING"
    /\ current_url' = reload_url
    /\ cb' = <<<<"on_state_change", "BUFFERING">>, <<"on_buffering", "">>>>
    /\ play_threads' = Spawn(play_threads, <<reload_url, "start">>)
    /\ ret' = "True"
    /\ stop_clean' = FALSE
    /\ UNCHANGED <<player, vlc_url, stop_threads, now, reload_url,
                   reload_station>>
    /\ UNCHANGED recVars
    /\ UNCHANGED schedVars
    /\ UNCHANGED nonPlayerVars

\* --------------------------------------------------------------- volume
Min(a, b) == IF a < b THEN a ELSE b
Max(a, b) == IF a > b THEN a ELSE b

\* the volume setter without its lower limit
ClampUpper(value) == Min(MaxVolume, value)

\* volume setter: max(0, min(100, value))
Clamp(value) == Max(0, Min(MaxVolume, value))

\* AudioPlayer.volume = value
SetVolume(value) ==
    /\ volume' = Clamp(value)
    /\ vol_ret' = -1
    /\ UNCHANGED othersVol

\* AudioPlayer.set_volume_percent(percent)
SetVolumePercent(percent) ==
    /\ volume' = Clamp(percent)
    /\ vol_ret' = -1
    /\ UNCHANGED othersVol

\* AudioPlayer.volume_up(step)
VolumeUp(step) ==
    /\ volume' = Clamp(Min(MaxVolume, volume + step))
    /\ vol_ret' = volume'
    /\ UNCHANGED othersVol

\* AudioPlayer.volume_down(step)
VolumeDown(step) ==
    /\ volume' = Clamp(Max(0, volume - step))
    /\ vol_ret' = volume'
    /\ UNCHANGED othersVol

\* GlobalPlugin.script_volume_up
ScriptVolumeUp ==
    /\ IF volume >= MaxVolume
       THEN UNCHANGED volume
       ELSE volume' = Clamp(Min(MaxVolume, volume + ScriptStep))
    /\ vol_ret' = -1
    /\ UNCHANGED othersVol

\* GlobalPlugin.script_volume_down
ScriptVolumeDown ==
    /\ IF volume <= 0
       THEN UNCHANGED volume
       ELSE volume' = Clamp(Max(0, volume - ScriptStep))
    /\ vol_ret' = -1
    /\ UNCHANGED othersVol

\* ------------------------------------------------------------ event bus
\* A ref stands for the object appended to the list: weakref.ref(callback)
\* or StrongRef(callback).  weakref.ref gives the same object for the same
\* live callable (n = 0); a StrongRef, and the weakref of a callable that
\* nothing else references (a lambda or a bound method made in the call), is
\* an object of its own (n = number of the subscription).  Such a weakref is
\* dead as soon as subscribe() returns.
RefOf(obj, temp, weak, n) ==
    IF weak /\ ~temp
    THEN [obj |-> obj, n |-> 0, dead |-> FALSE]
    ELSE [obj |-> obj, n |-> n, dead |-> weak /\ temp]

\* list.remove(x): the first element equal to x is taken out (ValueError,
\* which the caller swallows, when there is none)
RemoveFirst(list, x) ==
    IF \E i \in 1..Len(list) : list[i] = x
    THEN LET i == CHOOSE j \in 1..Len(list) :
                     /\ list[j] = x
                     /\ \A k \in 1..(j - 1) : list[k] # x
         IN SubSeq(list, 1, i - 1) \o SubSeq(list, i + 1, Len(list))
    ELSE list

\* the subscriptions of event type ev (None: of every type) marked cancelled
MarkCancelled(tokens, ev) ==
    [k \in 1..Len(tokens) |->
        IF ev = None \/ tokens[k].ev = ev
        THEN [tokens[k] EXCEPT !.cancelled = TRUE]
        ELSE tokens[k]]

\* EventBus.subscribe(event_type, callback, weak), from a thread that does not
\* hold the lock
Subscribe(ev, obj, temp, weak) ==
    /\ ~emit_cur.on
    /\ Len(bus_tokens) < MaxSubs
    /\ LET ref == RefOf(obj, temp, weak, Len(bus_tokens) + 1)
       IN /\ bus_subs' = [bus_subs EXCEPT ![ev] = Append(@, ref)]
          /\ bus_tokens' = Append(bus_tokens,
                                  [ev |-> ev, ref |-> ref, weak |-> weak,
                                   cancelled |-> FALSE])
    /\ UNCHANGED <<bus_enabled, emit_workers, emit_pend, emit_cur, bus_ret>>
    /\ UNCHANGED othersBus

\* the cancel function number k, which calls _unsubscribe(event_type, ref),
\* from a thread that does not hold the lock
CancelSub(k) ==
    /\ ~emit_cur.on
    /\ k \in 1..Len(bus_tokens)
    /\ bus_subs' = [bus_subs EXCEPT ![bus_tokens[k].ev] =
                                        RemoveFirst(@, bus_tokens[k].ref)]
    /\ bus_tokens' = [bus_tokens EXCEPT ![k].cancelled = TRUE]
    /\ UNCHANGED <<bus_enabled, emit_workers, emit_pend, emit_cur, bus_ret>>
    /\ UNCHANGED othersBus

\* EventBus.unsubscribe_all(event_type), event_type None for all, from a
\* thread that does not hold the lock
UnsubscribeAll(ev) ==
    /\ ~emit_cur.on
    /\ bus_subs' = [e \in EventTypes |->
                       IF ev = None \/ e = ev THEN <<>> ELSE bus_subs[e]]
    /\ bus_tokens' = MarkCancelled(bus_tokens, ev)
    /\ UNCHANGED <<bus_enabled, emit_workers, emit_pend, emit_cur, bus_ret>>
    /\ UNCHANGED othersBus

\* EventBus.emit_async: starts a thread that will call emit
EmitAsync(ev, data) ==
    /\ Cardinality(emit_workers) + Cardinality(emit_pend) < MaxEmits
    /\ emit_workers' = emit_workers \cup {[ev |-> ev, data |-> data]}
    /\ UNCHANGED <<bus_subs, bus_tokens, bus_enabled, emit_pend, emit_cur,
                   bus_ret>>
    /\ UNCHANGED othersBus

\* emit() up to the lock: `if not self._enabled: return 0`.  worker: the call
\* is made by a thread of emit_async, else by the caller's thread.
EmitCheck(ev, data, worker) ==
    /\ IF worker
       THEN /\ [ev |-> ev, data |-> data] \in emit_workers
            /\ emit_workers' = emit_workers \ {[ev |-> ev, data |-> data]}
       ELSE /\ Cardinality(emit_workers) + Cardinality(emit_pend) < MaxEmits
            /\ UNCHANGED emit_workers
    /\ IF bus_enabled
       THEN /\ emit_pend' = emit_pend \cup {[ev |-> ev, data |-> data]}
            /\ UNCHANGED bus_ret
       ELSE /\ bus_ret' = 0
            /\ UNCHANGED emit_pend
    /\ UNCHANGED <<bus_subs, bus_tokens, bus_enabled, emit_cur>>
    /\ UNCHANGED othersBus

\* emit(): `with self._lock:` entered, before the for loop.  start: the
\* subscriptions not cancelled at this point.
EmitLock(e) ==
    /\ ~emit_cur.on
    /\ e \in emit_pend
    /\ emit_pend' = emit_pend \ {e}
    /\ emit_cur' = [on |-> TRUE, ev |-> e.ev, data |-> e.data, idx |-> 0,
                    alive_refs |-> <<>>, notified |-> 0, log |-> <<>>,
                    start |-> {k \in 1..Len(bus_tokens) :
                                  ~bus_tokens[k].cancelled}]
    /\ UNCHANGED <<bus_subs, bus_tokens, bus_enabled, emit_workers, bus_ret>>
    /\ UNCHANGED othersBus

\* what the call of the callable of ref does to the list and to the cancel
\* functions: "cancel" calls a cancel function of its own, "clear" calls
\* unsubscribe_all(event_type); both from the thread that holds the RLock
CallSubs(ref, ev) ==
    CASE ref.obj = "cancel" ->
            [bus_subs EXCEPT ![ev] = RemoveFirst(@, ref)]
      [] ref.obj = "clear" -> [bus_subs EXCEPT ![ev] = <<>>]
      [] OTHER -> bus_subs

CallTokens(ref, ev) ==
    CASE ref.obj = "cancel" ->
            [k \in 1..Len(bus_tokens) |->
                IF bus_tokens[k].ev = ev /\ bus_tokens[k].ref = ref
                THEN [bus_tokens[k] EXCEPT !.cancelled = TRUE]
                ELSE bus_tokens[k]]
      [] ref.obj = "clear" -> MarkCancelled(bus_tokens, ev)
      [] OTHER -> bus_tokens

\* one iteration of emit's for loop that ends the loop when the callback
\* raises
EmitStepAbort ==
    /\ emit_cur.on
    /\ emit_cur.idx < Len(bus_subs[emit_cur.ev])
    /\ LET ref == bus_subs[emit_cur.ev][emit_cur.idx + 1]
       IN IF ref.dead
          THEN /\ emit_cur' = [emit_cur EXCEPT !.idx = @ + 1]
               /\ UNCHANGED <<bus_subs, bus_tokens>>
          ELSE /\ emit_cur' =
                    [emit_cur EXCEPT
                       !.idx = IF ref.obj = "raise"
                               THEN Len(bus_subs[emit_cur.ev]) ELSE @ + 1,
                       !.alive_refs = Append(@, ref),
                       !.notified = IF ref.obj = "raise" THEN @ ELSE @ + 1,
                       !.log = Append(@, [ref |-> ref, data |-> emit_cur.data,
                                          ok |-> ref.obj # "raise"])]
               /\ bus_subs' = CallSubs(ref, emit_cur.ev)
               /\ bus_tokens' = CallTokens(ref, emit_cur.ev)
    /\ UNCHANGED <<bus_enabled, emit_workers, emit_pend, bus_ret>>
    /\ UNCHANGED othersBus

\* one iteration of emit's for loop over self._subscribers[event_type]: the
\* list iterator takes the element at its index, whatever the callbacks did
\* to the list meanwhile
EmitStep ==
    /\ emit_cur.on
    /\ emit_cur.idx < Len(bus_subs[emit_cur.ev])
    /\ LET ref == bus_subs[emit_cur.ev][emit_cur.idx + 1]
       IN IF ref.dead
          THEN /\ emit_cur' = [emit_cur EXCEPT !.idx = @ + 1]
               /\ UNCHANGED <<bus_subs, bus_tokens>>
          ELSE /\ emit_cur' =
                    [emit_cur EXCEPT
                       !.idx = @ + 1,
                       !.alive_refs = Append(@, ref),
                       !.notified = IF ref.obj = "raise" THEN @ ELSE @ + 1,
                       !.log = Append(@, [ref |-> ref, data |-> emit_cur.data,
                                          ok |-> ref.obj # "raise"])]
               /\ bus_subs' = CallSubs(ref, emit_cur.ev)
               /\ bus_tokens' = CallTokens(ref, emit_cur.ev)
    /\ UNCHANGED <<bus_enabled, emit_workers, emit_pend, bus_ret>>
    /\ UNCHANGED othersBus

\* emit() after the loop: the list becomes alive_refs, the lock is released
\* and the count is returned
EmitEnd ==
    /\ emit_cur.on
    /\ emit_cur.idx >= Len(bus_subs[emit_cur.ev])
    /\ bus_subs' = [bus_subs EXCEPT ![emit_cur.ev] = emit_cur.alive_refs]
    /\ bus_ret' = emit_cur.notified
    /\ emit_cur' = NoEmit
    /\ UNCHANGED <<bus_tokens, bus_enabled, emit_workers, emit_pend>>
    /\ UNCHANGED othersBus

\* EventBus.get_subscriber_count(event_type): the references of the list
\* that are alive
GetSubscriberCount(ev) ==
    Cardinality({i \in 1..Len(bus_subs[ev]) : ~bus_subs[ev][i].dead})

\* EventBus.enable
Enable ==
    /\ bus_enabled' = TRUE
    /\ UNCHANGED <<bus_subs, bus_tokens, emit_workers, emit_pend, emit_cur,
                   bus_ret>>
    /\ UNCHANGED othersBus

\* EventBus.disable
Disable ==
    /\ bus_enabled' = FALSE
    /\ UNCHANGED <<bus_subs, bus_tokens, emit_workers, emit_pend, emit_cur,
                   bus_ret>>
    /\ UNCHANGED othersBus

\* ----------------------------------------------------------- API client
IndexOf(list, x) == CHOOSE i \in 1..Len(list) : list[i] = x

InList(list, x) == \E i \in 1..Len(list) : list[i] = x

\* _rotate_server: the list of servers after the call; discovered is what
\* _discover_servers returns when it is called
RotatedServers(discovered) ==
    IF Len(api_servers) <= 1 THEN discovered ELSE api_servers

\* _rotate_server: the new _base_url; choice is what random.choice returns
RotatedBase(discovered, choice) ==
    LET list == RotatedServers(discovered) IN
    IF InList(list, api_base)
    THEN list[(IndexOf(list, api_base) % Len(list)) + 1]
    ELSE choice

\* the test of _get's except block that treats every HTTP error as a server
\* error
ShouldRetryAnyStatus(e, retry_count) ==
    retry_count < MaxRetries

\* the test of _get's except block: should_retry
ShouldRetry(e, retry_count) ==
    /\ retry_count < MaxRetries
    /\ IF e.kind = "http" THEN 500 <= e.status /\ e.status < 600 ELSE TRUE

\* RadioBrowserAPI.__init__: the discovered servers and one of them, or the
\* given base_url alone
NewClient(servers, base) ==
    /\ api_pc = "new"
    /\ InList(servers, base)
    /\ api_servers' = servers
    /\ api_base' = base
    /\ api_pc' = "idle"
    /\ UNCHANGED <<api_retry, api_tries, api_err>>
    /\ UNCHANGED othersApi

\* a caller starts a request: _get(endpoint, params) with retry_count = 0
Get ==
    /\ api_pc \notin {"new", "running"}
    /\ api_pc' = "running"
    /\ api_retry' = 0
    /\ api_tries' = 0
    /\ api_err' = NoError
    /\ UNCHANGED <<api_servers, api_base>>
    /\ UNCHANGED othersApi

\* one _get(endpoint, params, retry_count) from the HTTP request to the
\* return of the answer, to the raise, or to the recursive call after
\* _rotate_server
Attempt(outcome, discovered, choice) ==
    /\ api_pc = "running"
    /\ api_tries' = api_tries + 1
    /\ IF outcome.kind = "ok"
       THEN /\ api_pc' = "returned"
            /\ UNCHANGED <<api_servers, api_base, api_retry, api_err>>
       ELSE /\ api_err' = outcome
            /\ IF ShouldRetry(outcome, api_retry)
               THEN /\ InList(RotatedServers(discovered), choice)
                    /\ api_servers' = RotatedServers(discovered)
                    /\ api_base' = RotatedBase(discovered, choice)
                    /\ api_retry' = api_retry + 1
                    /\ api_pc' = "running"
               ELSE /\ api_pc' = "raised"
                    /\ UNCHANGED <<api_servers, api_base, api_retry>>
    /\ UNCHANGED othersApi

\* -------------------------------------------------------- plugin manager
\* keys of PluginManager._plugins
LoadedPlugins == {id \in PluginIds : plug_plugins[id] # 0}

\* self._event_bus.emit(type, data about plugin id).  Nothing subscribes to
\* the plugin events, so emit finds no list for the type, returns 0 and
\* leaves the bus as it is.
PluginEvent(type, id, loaded) == [type |-> type, id |-> id, loaded |-> loaded]

\* discover_plugins: found are the ids of the plugin classes in the
\* plugin directories
DiscoverPlugins(found) ==
    /\ plug_classes' = plug_classes \cup found
    /\ plug_emits' = <<>>
    /\ plug_ret' = None
    /\ UNCHANGED <<plug_plugins, plug_made, plug_onload>>
    /\ UNCHANGED othersPlug

\* load_plugin from the test on _plugin_classes on: the constructor, on_load,
\* the registration and the event
LoadFresh(plugin_id, how) ==
    IF plugin_id \notin plug_classes
    THEN /\ plug_ret' = "False"
         /\ plug_emits' = <<>>
         /\ UNCHANGED <<plug_plugins, plug_made, plug_onload>>
    ELSE IF how = "init_raise"
    THEN /\ plug_ret' = "False"
         /\ plug_emits' = <<PluginEvent("PLUGIN_ERROR", plugin_id,
                                        LoadedPlugins)>>
         /\ UNCHANGED <<plug_plugins, plug_made, plug_onload>>
    ELSE /\ plug_made' = plug_made + 1
         /\ plug_onload' = plug_onload + 1
         /\ IF how = "True"
            THEN /\ plug_plugins' =
                        [plug_plugins EXCEPT ![plugin_id] = plug_made + 1]
                 /\ plug_emits' =
                        <<PluginEvent("PLUGIN_LOADED", plugin_id,
                                      LoadedPlugins \cup {plugin_id})>>
                 /\ plug_ret' = "True"
            ELSE /\ UNCHANGED plug_plugins
                 /\ plug_emits' =
                        IF how = "raise"
                        THEN <<PluginEvent("PLUGIN_ERROR", plugin_id,
                                           LoadedPlugins)>>
                        ELSE <<>>
                 /\ plug_ret' = "False"

\* load_plugin without its test on _plugins
LoadPluginAgain(plugin_id, how) ==
    /\ plug_made < MaxInstances
    /\ LoadFresh(plugin_id, how)
    /\ UNCHANGED plug_classes
    /\ UNCHANGED othersPlug

\* PluginManager.load_plugin(plugin_id); how: what the plugin's constructor
\* and on_load do if they are called
LoadPlugin(plugin_id, how) ==
    /\ plug_made < MaxInstances
    /\ IF plugin_id \in LoadedPlugins
       THEN /\ plug_ret' = "True"
            /\ plug_emits' = <<>>
            /\ UNCHANGED <<plug_plugins, plug_made, plug_onload>>
       ELSE LoadFresh(plugin_id, how)
    /\ UNCHANGED plug_classes
    /\ UNCHANGED othersPlug

\* PluginManager.unload_plugin(plugin_id); how: what on_unload does
UnloadPlugin(plugin_id, how) ==
    /\ IF plugin_id \notin LoadedPlugins
       THEN /\ plug_ret' = "True"
            /\ plug_emits' = <<>>
            /\ UNCHANGED plug_plugins
       ELSE IF how = "True"
       THEN /\ plug_plugins' = [plug_plugins EXCEPT ![plugin_id] = 0]
            /\ plug_emits' =
                   <<PluginEvent("PLUGIN_UNLOADED", plugin_id,
                                 LoadedPlugins \ {plugin_id})>>
            /\ plug_ret' = "True"
       ELSE /\ plug_ret' = "False"
            /\ plug_emits' = <<>>
            /\ UNCHANGED plug_plugins
    /\ UNCHANGED <<plug_classes, plug_made, plug_onload>>
    /\ UNCHANGED othersPlug

\* -------------------------------------------------------------- database
\* ORDER BY "order", name; rows equal in both come in rowid order
FavBefore(f, g) ==
    \/ f.order < g.order
    \/ f.order = g.order /\ f.name < g.name
    \/ f.order = g.order /\ f.name = g.name /\ f.id < g.id

\* get_favorites() of the rows favs
FavoritesOf(favs) ==
    CHOOSE l \in [1..Cardinality(favs) -> favs] :
        \A i, j \in 1..Cardinality(favs) : i < j => FavBefore(l[i], l[j])

\* DatabaseManager.get_favorites()
GetFavorites == FavoritesOf(db_favs)

\* the ids of a list of favorites
IdsOf(list) == [i \in 1..Len(list) |-> list[i].id]

\* SELECT MAX("order") FROM favorites, then (max_order or 0)
MaxOrder ==
    IF db_favs = {} THEN 0
    ELSE CHOOSE m \in {f.order : f \in db_favs} :
            \A f \in db_favs : f.order <= m

\* DatabaseManager.add_category
AddCategory ==
    /\ db_next_cat <= MaxCats
    /\ db_cats' = db_cats \cup {db_next_cat}
    /\ db_next_cat' = db_next_cat + 1
    /\ db_ret' = DbInt(db_next_cat)
    /\ db_last' = NoMove
    /\ UNCHANGED <<db_favs, db_next_fav>>
    /\ UNCHANGED othersDb

\* DatabaseManager.delete_category.  foreign_keys: whether the SQLite
\* library enforces foreign keys on the connection.  _get_connection runs
\* no PRAGMA foreign_keys, so this is the default the library was built
\* with (off in the standard builds); only when it is on does ON DELETE SET
\* NULL act.
DeleteCategory(category_id, foreign_keys) ==
    /\ db_cats' = db_cats \ {category_id}
    /\ db_favs' =
          IF foreign_keys /\ category_id \in db_cats
          THEN {IF f.category_id = category_id
                THEN [f EXCEPT !.category_id = Null] ELSE f : f \in db_favs}
          ELSE db_favs
    /\ db_ret' = DbBool(category_id \in db_cats)
    /\ db_last' = NoMove
    /\ UNCHANGED <<db_next_fav, db_next_cat>>
    /\ UNCHANGED othersDb

\* DatabaseManager.add_favorite
AddFavorite(name, category_id) ==
    /\ db_next_fav <= MaxFavs
    /\ db_favs' = db_favs \cup
          {[id |-> db_next_fav, name |-> name, category_id |-> category_id,
            order |-> MaxOrder + 1]}
    /\ db_next_fav' = db_next_fav + 1
    /\ db_ret' = DbInt(db_next_fav)
    /\ db_last' = NoMove
    /\ UNCHANGED <<db_cats, db_next_cat>>
    /\ UNCHANGED othersDb

\* DatabaseManager.update_favorite, of the order field
UpdateFavorite(favorite_id, order) ==
    /\ db_favs' = {IF f.id = favorite_id THEN [f EXCEPT !.order = order]
                   ELSE f : f \in db_favs}
    /\ db_ret' = DbBool(\E f \in db_favs : f.id = favorite_id)
    /\ db_last' = NoMove
    /\ UNCHANGED <<db_cats, db_next_fav, db_next_cat>>
    /\ UNCHANGED othersDb

\* DatabaseManager.delete_favorite
DeleteFavorite(favorite_id) ==
    /\ db_favs' = {f \in db_favs : f.id # favorite_id}
    /\ db_ret' = DbBool(\E f \in db_favs : f.id = favorite_id)
    /\ db_last' = NoMove
    /\ UNCHANGED <<db_cats, db_next_fav, db_next_cat>>
    /\ UNCHANGED othersDb

\* favorites[idx], favorites[new_idx] = favorites[new_idx], favorites[idx]
SwapAt(list, i, j) ==
    [k \in 1..Len(list) |->
        IF k = i THEN list[j] ELSE IF k = j THEN list[i] ELSE list[k]]

\* reorder_favorites({f.id: i for i, f in enumerate(favorites)})
Renumbered(favorites) ==
    {[favorites[k] EXCEPT !.order = k - 1] : k \in 1..Len(favorites)}

\* the move written as an exchange of the two rows' values of "order"
MovedExchanging(favorites, i, j) ==
    {IF f.id = favorites[i].id THEN [f EXCEPT !.order = favorites[j].order]
     ELSE IF f.id = favorites[j].id THEN [f EXCEPT !.order = favorites[i].order]
     ELSE f : f \in db_favs}

\* the rows written by the move of the favorites at places idx and new_idx
Moved(favorites, idx, new_idx) ==
    Renumbered(SwapAt(favorites, idx, new_idx))

\* DatabaseManager.move_favorite(favorite_id, direction)
MoveFavorite(favorite_id, direction) ==
    LET favorites == GetFavorites
        found == {i \in 1..Len(favorites) : favorites[i].id = favorite_id}
    IN  /\ IF found = {}
           THEN /\ db_ret' = DbFalse
                /\ UNCHANGED db_favs
           ELSE LET idx == CHOOSE i \in found : TRUE
                    new_idx == idx + direction
                IN  IF new_idx < 1 \/ new_idx > Len(favorites)
                    THEN /\ db_ret' = DbFalse
                         /\ UNCHANGED db_favs
                    ELSE /\ db_favs' = Moved(favorites, idx, new_idx)
                         /\ db_ret' = DbTrue
        /\ db_last' = [op |-> "move", id |-> favorite_id,
                       direction |-> direction, ret |-> db_ret',
                       before |-> IdsOf(favorites)]
        /\ UNCHANGED <<db_cats, db_next_fav, db_next_cat>>
        /\ UNCHANGED othersDb

\* ------------------------------------------------------------ recording
\* VLCPlayer.stop_recording: what it returns
VlcStopRecordingResult ==
    IF vlc_recording THEN vlc_record_file ELSE None

\* AudioPlayer.stop_recording: what it returns
StopRecordingResult ==
    IF player THEN VlcStopRecordingResult ELSE None

\* AudioPlayer.stop_recording: the on_recording_stopped notification
StopRecordingNotify ==
    IF StopRecordingResult # None
    THEN <<<<"on_recording_stopped", StopRecordingResult>>>>
    ELSE <<>>

\* AudioPlayer.stop_recording over VLCPlayer.stop_recording: the record
\* player the backend holds is stopped and released, whichever thread made it
StopRecordingEffect ==
    IF ~player
    THEN UNCHANGED <<recording_state, vlc_recording, vlc_record_file,
                     vlc_record_player, rec_players>>
    ELSE /\ recording_state' = "IDLE"
         /\ IF vlc_recording
            THEN /\ rec_players' =
                      {p \in rec_players : p.id # vlc_record_player}
                 /\ vlc_record_player' = 0
                 /\ vlc_recording' = FALSE
                 /\ vlc_record_file' = ""
            ELSE UNCHANGED <<vlc_recording, vlc_record_file,
                             vlc_record_player, rec_players>>

\* AudioPlayer.stop_recording() called from the caller's thread
StopRecording ==
    /\ ret' = StopRecordingResult
    /\ cb' = StopRecordingNotify
    /\ StopRecordingEffect
    /\ UNCHANGED <<rec_threads, next_rec, now, stop_clean>>
    /\ UNCHANGED playVars
    /\ UNCHANGED schedVars
    /\ UNCHANGED extVars

\* the _stop_async thread of stop(): under the lock, stop the recording if
\* one is flagged, stop the backend, clear state, URL and station
StopThread ==
    /\ stop_threads > 0
    /\ stop_threads' = stop_threads - 1
    /\ IF is_recording
       THEN /\ StopRecordingEffect
            /\ cb' = StopRecordingNotify \o <<<<"on_state_change", "STOPPED">>>>
       ELSE /\ UNCHANGED <<recording_state, vlc_recording, vlc_record_file,
                           vlc_record_player, rec_players>>
            /\ cb' = <<<<"on_state_change", "STOPPED">>>>
    /\ vlc_url' = ""
    /\ state' = "STOPPED"
    /\ current_url' = ""
    /\ current_station' = None
    /\ ret' = None
    /\ UNCHANGED <<player, play_threads, rec_threads, next_rec, now,
                   stop_clean>>
    /\ UNCHANGED schedVars
    /\ UNCHANGED extVars

\* start_recording: `url or self._current_url`
RecordUrl(url) == IF url # "" THEN url ELSE current_url

\* AudioPlayer.start_recording(output_path, url), async_record = True: what it
\* returns.  init_ok: vlc.VLC() can be created when there is no player yet.
StartRecordingResult(url, init_ok) ==
    IF ~player /\ ~init_ok THEN "False"
    ELSE IF RecordUrl(url) = "" THEN "False"
    ELSE "True"

\* AudioPlayer.start_recording(output_path, url): _init_player, then mark
\* RECORDING and start the _start_recording_async thread.  origin and until
\* tell which scheduled entry asked for it (0: the user) and its end_time.
StartRecordingEffect(path, url, init_ok, origin, until) ==
    /\ player' = (player \/ init_ok)
    /\ IF StartRecordingResult(url, init_ok) = "True"
       THEN /\ next_rec < MaxThreads
            /\ next_rec' = next_rec + 1
            /\ recording_state' = "RECORDING"
            /\ rec_threads' = rec_threads \cup
                 {[id |-> next_rec + 1, url |-> RecordUrl(url), path |-> path,
                   origin |-> origin, until |-> until, pc |-> "start"]}
       ELSE UNCHANGED <<next_rec, recording_state, rec_threads>>

\* AudioPlayer.start_recording(output_path, url) called by the user; url = ""
\* stands for the default url=None (the current URL is recorded)
StartRecording(path, url, init_ok) ==
    /\ ret' = StartRecordingResult(url, init_ok)
    /\ cb' = <<>>
    /\ StartRecordingEffect(path, url, init_ok, 0, 0)
    /\ UNCHANGED <<state, current_url, current_station, vlc_url, play_threads,
                   stop_threads, vlc_recording, vlc_record_file,
                   vlc_record_player, rec_players, now, stop_clean>>
    /\ UNCHANGED schedVars
    /\ UNCHANGED extVars

RecPlayerOf(t) ==
    [id |-> t.id, url |-> t.url, path |-> t.path, origin |-> t.origin,
     until |-> t.until]

\* _start_recording_async up to the time.sleep(0.2) inside
\* VLCPlayer.start_recording: refused when a recording is flagged; otherwise a
\* new record player is created and started (made: nothing raised on the way)
RecThreadStart(t, made) ==
    /\ t \in rec_threads
    /\ t.pc = "start"
    /\ IF vlc_recording
       THEN /\ rec_threads' = rec_threads \ {t}
            /\ recording_state' = "IDLE"
            /\ ret' = "False"
            /\ UNCHANGED <<vlc_recording, vlc_record_player, rec_players>>
       ELSE IF ~made
       THEN /\ rec_threads' = rec_threads \ {t}
            /\ vlc_recording' = FALSE
            /\ recording_state' = "IDLE"
            /\ ret' = "False"
            /\ UNCHANGED <<vlc_record_player, rec_players>>
       ELSE /\ rec_threads' = (rec_threads \ {t}) \cup {[t EXCEPT !.pc = "sleep"]}
            /\ vlc_record_player' = t.id
            /\ rec_players' = rec_players \cup {RecPlayerOf(t)}
            /\ ret' = None
            /\ UNCHANGED <<vlc_recording, recording_state>>
    /\ cb' = <<>>
    /\ UNCHANGED <<vlc_record_file, next_rec, now, stop_clean>>
    /\ UNCHANGED playVars
    /\ UNCHANGED schedVars
    /\ UNCHANGED extVars

\* _start_recording_async after the sleep: the record player is in
\* vlc.State.Error (failed) or the recording is flagged and notified
RecThreadWake(t, failed) ==
    /\ t \in rec_threads
    /\ t.pc = "sleep"
    /\ rec_threads' = rec_threads \ {t}
    /\ IF failed
       THEN /\ vlc_recording' = FALSE
            /\ rec_players' = {p \in rec_players : p.id # t.id}
            /\ recording_state' = "IDLE"
            /\ ret' = "False"
            /\ cb' = <<>>
            /\ UNCHANGED vlc_record_file
       ELSE /\ vlc_recording' = TRUE
            /\ vlc_record_file' = t.path
            /\ ret' = "True"
            /\ cb' = <<<<"on_recording_started", t.path>>>>
            /\ UNCHANGED <<rec_players, recording_state>>
    /\ UNCHANGED <<vlc_record_player, next_rec, now, stop_clean>>
    /\ UNCHANGED playVars
    /\ UNCHANGED schedVars
    /\ UNCHANGED extVars

\* ------------------------------------------------------------- schedule
\* schedule_recording with the start/end comparison non-strict
ScheduleRecordingLax(url, name, start_time, end_time, path) ==
    /\ cb' = <<>>
    /\ IF start_time > end_time \/ start_time <= now
       THEN /\ ret' = "False"
            /\ UNCHANGED <<scheduled_recordings, next_sched>>
       ELSE /\ next_sched < MaxSched
            /\ next_sched' = next_sched + 1
            /\ scheduled_recordings' = Append(scheduled_recordings,
                 [id |-> next_sched + 1, station_url |-> url,
                  station_name |-> name, start_time |-> start_time,
                  end_time |-> end_time, output_path |-> path,
                  active |-> TRUE])
            /\ ret' = "True"
    /\ UNCHANGED <<sched_pc, sched_now, sched_idx, now, stop_clean>>
    /\ UNCHANGED playVars
    /\ UNCHANGED recVars
    /\ UNCHANGED extVars

\* AudioPlayer.schedule_recording
ScheduleRecording(url, name, start_time, end_time, path) ==
    /\ cb' = <<>>
    /\ IF start_time >= end_time \/ start_time <= now
       THEN /\ ret' = "False"
            /\ UNCHANGED <<scheduled_recordings, next_sched>>
       ELSE /\ next_sched < MaxSched
            /\ next_sched' = next_sched + 1
            /\ scheduled_recordings' = Append(scheduled_recordings,
                 [id |-> next_sched + 1, station_url |-> url,
                  station_name |-> name, start_time |-> start_time,
                  end_time |-> end_time, output_path |-> path,
                  active |-> TRUE])
            /\ ret' = "True"
    /\ UNCHANGED <<sched_pc, sched_now, sched_idx, now, stop_clean>>
    /\ UNCHANGED playVars
    /\ UNCHANGED recVars
    /\ UNCHANGED extVars

\* cancel_scheduled_recording indexing the internal list instead of the
\* list of active entries
CancelScheduledRecordingRaw(index) ==
    /\ cb' = <<>>
    /\ IF 0 <= index /\ index < Len(scheduled_recordings)
       THEN /\ scheduled_recordings' =
                 [scheduled_recordings EXCEPT ![index + 1].active = FALSE]
            /\ ret' = "True"
       ELSE /\ ret' = "False"
            /\ UNCHANGED scheduled_recordings
    /\ UNCHANGED <<next_sched, sched_pc, sched_now, sched_idx, now,
                   stop_clean>>
    /\ UNCHANGED playVars
    /\ UNCHANGED recVars
    /\ UNCHANGED extVars

\* AudioPlayer.cancel_scheduled_recording: the object at position index of
\* the list of active entries is marked inactive
CancelScheduledRecording(index) ==
    /\ cb' = <<>>
    /\ IF 0 <= index /\ index < Len(ActiveRecordings)
       THEN /\ scheduled_recordings' =
                 [i \in DOMAIN scheduled_recordings |->
                    IF scheduled_recordings[i].id = ActiveRecordings[index + 1].id
                    THEN [scheduled_recordings[i] EXCEPT !.active = FALSE]
                    ELSE scheduled_recordings[i]]
            /\ ret' = "True"
       ELSE /\ ret' = "False"
            /\ UNCHANGED scheduled_recordings
    /\ UNCHANGED <<next_sched, sched_pc, sched_now, sched_idx, now,
                   stop_clean>>
    /\ UNCHANGED playVars
    /\ UNCHANGED recVars
    /\ UNCHANGED extVars

\* ------------------------------------------------------------ scheduler
\* the window test without its upper end
InWindowOpenEnded(e, t) == e.start_time <= t

\* `recording.start_time <= now < recording.end_time`
InWindow(e, t) == e.start_time <= t /\ t < e.end_time

\* `elif now >= recording.end_time`
Ended(e, t) == ~InWindow(e, t) /\ t >= e.end_time

\* _scheduler_loop: a poll begins, `now = datetime.now()`
SchedPoll ==
    /\ sched_pc = "sleep"
    /\ sched_pc' = "loop"
    /\ sched_now' = now
    /\ sched_idx' = 1
    /\ ret' = None
    /\ cb' = <<>>
    /\ UNCHANGED <<scheduled_recordings, next_sched, now, stop_clean>>
    /\ UNCHANGED playVars
    /\ UNCHANGED recVars
    /\ UNCHANGED extVars

\* _scheduler_loop: one iteration of `for recording in
\* self._scheduled_recordings`
SchedEntry(init_ok) ==
    /\ sched_pc = "loop"
    /\ sched_idx <= Len(scheduled_recordings)
    /\ sched_idx' = sched_idx + 1
    /\ ret' = None
    /\ LET e == scheduled_recordings[sched_idx] IN
       IF ~e.active
       THEN /\ cb' = <<>>
            /\ UNCHANGED <<player, scheduled_recordings>>
            /\ UNCHANGED recVars
       ELSE IF InWindow(e, sched_now)
       THEN /\ cb' = <<>>
            /\ IF ~is_recording
               THEN /\ StartRecordingEffect(e.output_path, e.station_url,
                                            init_ok, e.id, e.end_time)
                    /\ UNCHANGED <<vlc_recording, vlc_record_file,
                                   vlc_record_player, rec_players>>
               ELSE /\ UNCHANGED player
                    /\ UNCHANGED recVars
            /\ UNCHANGED scheduled_recordings
       ELSE IF Ended(e, sched_now)
       THEN /\ IF is_recording /\ recording_file = e.output_path
               THEN /\ StopRecordingEffect
                    /\ cb' = StopRecordingNotify
               ELSE /\ cb' = <<>>
                    /\ UNCHANGED <<recording_state, vlc_recording,
                                   vlc_record_file, vlc_record_player,
                                   rec_players>>
            /\ scheduled_recordings' =
                 [scheduled_recordings EXCEPT ![sched_idx].active = FALSE]
            /\ UNCHANGED <<player, rec_threads, next_rec>>
       ELSE /\ cb' = <<>>
            /\ UNCHANGED <<player, scheduled_recordings>>
            /\ UNCHANGED recVars
    /\ UNCHANGED <<state, current_url, current_station, vlc_url, play_threads,
                   stop_threads, next_sched, sched_pc, sched_now, now,
                   stop_clean>>
    /\ UNCHANGED extVars

\* the end of a poll that keeps the list as it is
SchedCleanKeep ==
    /\ sched_pc = "loop"
    /\ sched_idx > Len(scheduled_recordings)
    /\ sched_pc' = "sleep"
    /\ ret' = None
    /\ cb' = <<>>
    /\ UNCHANGED <<scheduled_recordings, next_sched, sched_now, sched_idx, now,
                   stop_clean>>
    /\ UNCHANGED playVars
    /\ UNCHANGED recVars
    /\ UNCHANGED extVars

\* _scheduler_loop: the loop is over, the inactive entries are dropped and
\* the thread sleeps 10 s
SchedClean ==
    /\ sched_pc = "loop"
    /\ sched_idx > Len(scheduled_recordings)
    /\ scheduled_recordings' =
         SelectSeq(scheduled_recordings, LAMBDA r : r.active)
    /\ sched_pc' = "sleep"
    /\ ret' = None
    /\ cb' = <<>>
    /\ UNCHANGED <<next_sched, sched_now, sched_idx, now, stop_clean>>
    /\ UNCHANGED playVars
    /\ UNCHANGED recVars
    /\ UNCHANGED extVars

\* the clock advances.  Its unit is that of the scheduling dialog (a minute);
\* a recording thread lives a fraction of a second and a poll lasts less, so
\* no thread is alive and no poll is under way across a tick.
Tick ==
    /\ now < MaxTime
    /\ rec_threads = {}
    /\ sched_pc = "sleep"
    /\ now' = now + 1
    /\ ret' = None
    /\ cb' = <<>>
    /\ UNCHANGED stop_clean
    /\ UNCHANGED playVars
    /\ UNCHANGED recVars
    /\ UNCHANGED schedVars
    /\ UNCHANGED extVars

\* -------------------------------------------------------- specification
\* playback: play(), stop() and their threads
NextPlayback ==
    \/ \E url \in PlayArgs : Play(url)
    \/ \E url \in Urls, init_ok \in BOOLEAN, play_ok \in BOOLEAN :
          PlayThreadStart(url, init_ok, play_ok)
    \/ \E url \in Urls : PlayThreadWake(url)
    \/ \E s \in Stations : SetStation(s)
    \/ Stop
    \/ StopThread

\* recording: start_recording / stop_recording and their threads, stop()
NextRecording ==
    \/ \E path \in Paths, url \in RecordArgs, init_ok \in BOOLEAN :
          StartRecording(path, url, init_ok)
    \/ \E t \in rec_threads, made \in BOOLEAN : RecThreadStart(t, made)
    \/ \E t \in rec_threads, failed \in BOOLEAN : RecThreadWake(t, failed)
    \/ StopRecording
    \/ Stop
    \/ StopThread

\* scheduled recordings: the scheduler thread beside the user's recording
\* and scheduling calls
NextScheduler ==
    \/ \E url \in SchedUrls, init_ok \in BOOLEAN :
          StartRecording("p1", url, init_ok)
    \/ \E t \in rec_threads, made \in BOOLEAN : RecThreadStart(t, made)
    \/ \E t \in rec_threads, failed \in BOOLEAN : RecThreadWake(t, failed)
    \/ StopRecording
    \/ \E url \in SchedUrls, name \in Names, s \in Times, e \in Times,
          path \in Paths : ScheduleRecording(url, name, s, e, path)
    \/ \E index \in -1..MaxSched : CancelScheduledRecording(index)
    \/ SchedPoll
    \/ \E init_ok \in BOOLEAN : SchedEntry(init_ok)
    \/ SchedClean
    \/ Tick

\* the scheduling calls beside the scheduler thread alone
NextSchedule ==
    \/ \E url \in SchedUrls, name \in Names, s \in Times, e \in Times,
          path \in Paths : ScheduleRecording(url, name, s, e, path)
    \/ \E index \in -1..MaxSched : CancelScheduledRecording(index)
    \/ SchedPoll
    \/ \E init_ok \in BOOLEAN : SchedEntry(init_ok)
    \/ SchedClean
    \/ \E t \in rec_threads, made \in BOOLEAN : RecThreadStart(t, made)
    \/ \E t \in rec_threads, failed \in BOOLEAN : RecThreadWake(t, failed)
    \/ Tick

\* reload() after some playback, with a backend that works; the caller makes
\* no other call once it has called reload()
NextReload ==
    \/ reload_pc = "idle" /\ \E url \in Urls : Play(url)
    \/ reload_pc = "idle" /\ \E s \in Stations : SetStation(s)
    \/ reload_pc = "idle" /\ Stop
    \/ \E url \in Urls : PlayThreadStart(url, TRUE, TRUE)
    \/ \E url \in Urls : PlayThreadWake(url)
    \/ StopThread
    \/ ReloadStart
    \/ ReloadWake

\* the event bus used from one thread: subscriptions, cancellations and
\* emits, with callbacks that may call back into the bus
NextBus ==
    \/ \E ev \in EventTypes, c \in SubscribeArgs :
          Subscribe(ev, c[1], c[2], c[3])
    \/ \E k \in 1..MaxSubs : CancelSub(k)
    \/ \E ev \in EventTypes \cup {None} : UnsubscribeAll(ev)
    \/ \E ev \in EventTypes :
          emit_pend = {} /\ ~emit_cur.on /\ EmitCheck(ev, "d1", FALSE)
    \/ \E e \in emit_pend : EmitLock(e)
    \/ EmitStep
    \/ EmitEnd

\* the event bus used from several threads: emit and emit_async beside
\* disable and enable, with callbacks that return
NextBusThreads ==
    \/ \E ev \in EventTypes : Subscribe(ev, "ok", FALSE, FALSE)
    \/ \E ev \in EventTypes, data \in Data : EmitAsync(ev, data)
    \/ \E ev \in EventTypes, data \in Data, worker \in BOOLEAN :
          EmitCheck(ev, data, worker)
    \/ \E e \in emit_pend : EmitLock(e)
    \/ EmitStep
    \/ EmitEnd
    \/ Enable
    \/ Disable

\* the volume calls
NextVolume ==
    \/ \E value \in VolumeArgs : SetVolume(value)
    \/ \E percent \in VolumeArgs : SetVolumePercent(percent)
    \/ \E step \in StepArgs : VolumeUp(step)
    \/ \E step \in StepArgs : VolumeDown(step)
    \/ ScriptVolumeUp
    \/ ScriptVolumeDown

SpecPlayback == Init /\ [][NextPlayback]_vars

\* the threads of play() and stop() are started at once and are not blocked
\* for ever: each live thread eventually takes its next step
PlaybackFairness ==
    /\ \A url \in Urls :
          /\ WF_vars(\E init_ok \in BOOLEAN, play_ok \in BOOLEAN :
                        PlayThreadStart(url, init_ok, play_ok))
          /\ WF_vars(PlayThreadWake(url))
    /\ WF_vars(StopThread)

SpecPlaybackFair == Init /\ [][NextPlayback]_vars /\ PlaybackFairness

SpecRecording == Init /\ [][NextRecording]_vars

SpecScheduler == Init /\ [][NextScheduler]_vars

SpecSchedule == Init /\ [][NextSchedule]_vars

\* the scheduler thread runs `while self._scheduler_running` from __init__
\* to cleanup: a poll follows every sleep and runs to its end
SchedulerFairness ==
    /\ WF_vars(SchedPoll)
    /\ WF_vars(\E init_ok \in BOOLEAN : SchedEntry(init_ok))
    /\ WF_vars(SchedClean)

SpecScheduleFair == Init /\ [][NextSchedule]_vars /\ SchedulerFairness

SpecReload == Init /\ [][NextReload]_vars

SpecVolume == Init /\ [][NextVolume]_vars

SpecBus == Init /\ [][NextBus]_vars

SpecBusThreads == Init /\ [][NextBusThreads]_vars

NextApi ==
    \/ \E servers \in ServerLists, base \in Servers : NewClient(servers, base)
    \/ Get
    \/ \E outcome \in Outcomes, discovered \in ServerLists, choice \in Servers :
          Attempt(outcome, discovered, choice)

SpecApi == Init /\ [][NextApi]_vars

NextPlugins ==
    \/ \E found \in SUBSET PluginIds : DiscoverPlugins(found)
    \/ \E id \in PluginIds, how \in LoadArgs : LoadPlugin(id, how)
    \/ \E id \in PluginIds, how \in UnloadArgs : UnloadPlugin(id, how)

SpecPlugins == Init /\ [][NextPlugins]_vars

NextFavorites ==
    \/ \E name \in FavNames : AddFavorite(name, Null)
    \/ \E id \in FavIds, order \in OrderArgs : UpdateFavorite(id, order)
    \/ \E id \in FavIds : DeleteFavorite(id)
    \/ \E id \in FavIds, direction \in Directions :
          MoveFavorite(id, direction)

NextCategories ==
    \/ AddCategory
    \/ \E id \in CatIds, foreign_keys \in BOOLEAN :
          DeleteCategory(id, foreign_keys)
    \/ \E category_id \in db_cats \cup {Null} : AddFavorite(1, category_id)
    \/ \E id \in FavIds : DeleteFavorite(id)

SpecFavorites == Init /\ [][NextFavorites]_vars

SpecCategories == Init /\ [][NextCategories]_vars

\* ---------------------------------------------------------------- claims
\* C1: once stop() has started its worker, the worker has finished and no
\* play() (nor station assignment) was made since, the player is STOPPED
\* with an empty current_url and no current_station, also when a play() was
\* still in flight at the time of the stop().
C1_StopStopsPlayback ==
    (stop_clean /\ stop_threads = 0) =>
        /\ state = "STOPPED"
        /\ current_url = ""
        /\ current_station = None

C1_Reached ==
    /\ stop_clean
    /\ stop_threads = 0
    /\ state = "PLAYING"

\* a play() call with a non-empty url
C9_PlayStep ==
    \A url \in Urls :
        Play(url) =>
            /\ ret' = "True"
            /\ state' = "BUFFERING"
            /\ current_url' = url
            /\ cb' = <<<<"on_state_change", "BUFFERING">>, <<"on_buffering", "">>>>

\* the state leaves BUFFERING by a step of a play() thread
C9_LeaveBuffering ==
    (state = "BUFFERING" /\ state' # "BUFFERING" /\ stop_threads' = stop_threads) =>
        \/ /\ state' = "PLAYING"
           /\ cb' = <<<<"on_state_change", "PLAYING">>, <<"on_playing", "">>>>
        \/ /\ state' = "ERROR"
           /\ Len(cb') = 1
           /\ cb'[1][1] = "on_error"

\* C9: play(url) with a non-empty url returns True leaving the state
\* BUFFERING and current_url = url, having notified on_state_change(BUFFERING)
\* and then on_buffering; the state leaves BUFFERING for PLAYING with
\* on_state_change(PLAYING) then on_playing notified, or for ERROR with
\* on_error notified; and from BUFFERING the state eventually is PLAYING or
\* ERROR.
C9_PlayReachesPlayingOrError ==
    /\ [][C9_PlayStep /\ C9_LeaveBuffering]_vars
    /\ (state = "BUFFERING") ~> (state \in {"PLAYING", "ERROR"})

C9_Reached ==
    /\ state = "PLAYING"
    /\ current_url \in Urls
    /\ cb = <<<<"on_state_change", "PLAYING">>, <<"on_playing", "">>>>

\* C10: play("") returns False and changes nothing: state, current_url,
\* current_station, the backend and the set of threads are as before and no
\* notification is made.
C10_PlayEmptyChangesNothing ==
    [][Play("") =>
          /\ ret' = "False"
          /\ cb' = <<>>
          /\ UNCHANGED <<player, state, current_url, current_station, vlc_url,
                         play_threads, stop_threads>>]_vars

C10_Reached ==
    /\ ret = "False"
    /\ state = "PLAYING"
    /\ current_station # None

\* C2: at most one backend recording is capturing at any time.
C2_AtMostOneRecording ==
    Cardinality(rec_players) <= 1

\* the recording threads that end in this step
EndingRecThreads ==
    {t \in rec_threads : \A u \in rec_threads' : u.id # t.id}

\* C7: every start_recording call that returned True (each recording thread
\* stems from one) ends with its backend recording in progress.
C7_TrueMeansRecording ==
    [][\A t \in EndingRecThreads :
          /\ vlc_recording'
          /\ \E p \in rec_players' : p.id = t.id /\ p.path = t.path]_vars

\* C8: stop_recording returns the recorded file's path exactly when a
\* recording was in progress at the call; afterwards is_recording is false,
\* recording_state is IDLE and recording_file is empty; on_recording_stopped
\* is notified once with the returned path, and not at all when None is
\* returned.
C8_StopRecording ==
    [][StopRecording =>
          /\ (ret' # None) <=> is_recording
          /\ is_recording => ret' = recording_file
          /\ ~is_recording'
          /\ recording_state' = "IDLE"
          /\ recording_file' = ""
          /\ cb' = IF ret' # None
                   THEN <<<<"on_recording_stopped", ret'>>>>
                   ELSE <<>>]_vars

C8_Reached ==
    /\ ret \in Paths
    /\ cb = <<<<"on_recording_stopped", ret>>>>
    /\ ~vlc_recording
    /\ recording_state = "IDLE"

\* the step is one iteration of the scheduler's loop over its list
SchedEntryStep ==
    /\ sched_pc = "loop"
    /\ sched_idx <= Len(scheduled_recordings)
    /\ sched_idx' = sched_idx + 1

\* the recording threads started in this step
NewRecThreads ==
    {t \in rec_threads' : \A u \in rec_threads : u.id # t.id}

\* the entry the scheduler's loop is at
SchedCurrent == scheduled_recordings[sched_idx]

\* the scheduler starts recordings only for the entry its loop is at, with the
\* entry's URL and path, when the entry is active and its window is open
C3_OnlyInWindow ==
    SchedEntryStep =>
        \A t \in NewRecThreads :
            /\ SchedCurrent.active
            /\ SchedCurrent.start_time <= sched_now
            /\ sched_now < SchedCurrent.end_time
            /\ t.origin = SchedCurrent.id
            /\ t.url = SchedCurrent.station_url
            /\ t.path = SchedCurrent.output_path

\* the loop is at an active entry whose window is open, and no recording is
\* in progress
C3_Due ==
    /\ SchedEntryStep
    /\ SchedCurrent.active
    /\ SchedCurrent.start_time <= sched_now
    /\ sched_now < SchedCurrent.end_time
    /\ ~is_recording

C3_Started ==
    \E t \in NewRecThreads :
        /\ t.origin = SchedCurrent.id
        /\ t.url = SchedCurrent.station_url
        /\ t.path = SchedCurrent.output_path

C4_StoppedByEndTime ==
    sched_pc = "sleep" =>
        \A p \in rec_players : p.origin # 0 => sched_now < p.until

C4_Reached ==
    /\ sched_pc = "sleep"
    /\ \E p \in rec_players : p.origin # 0 /\ sched_now >= p.until

\* C5: schedule_recording returns False and leaves the list as it is when
\* start_time >= end_time or start_time <= now; otherwise it returns True and
\* appends one active entry with the given url, name, times and path.
C5_ScheduleRecording ==
    [][\A url \in SchedUrls, name \in Names, s \in Times, e \in Times,
          path \in Paths :
          ScheduleRecording(url, name, s, e, path) =>
             IF s >= e \/ s <= now
             THEN /\ ret' = "False"
                  /\ scheduled_recordings' = scheduled_recordings
             ELSE /\ ret' = "True"
                  /\ Len(scheduled_recordings') = Len(scheduled_recordings) + 1
                  /\ SubSeq(scheduled_recordings', 1, Len(scheduled_recordings))
                       = scheduled_recordings
                  /\ LET r == scheduled_recordings'[Len(scheduled_recordings')]
                     IN /\ r.active
                        /\ r.station_url = url
                        /\ r.station_name = name
                        /\ r.start_time = s
                        /\ r.end_time = e
                        /\ r.output_path = path]_vars

C5_Reached ==
    /\ ret = "True"
    /\ next_rec = 0
    /\ Len(scheduled_recordings) = 2
    /\ scheduled_recordings[2].active
    /\ scheduled_recordings[1].output_path # scheduled_recordings[2].output_path

\* the positions of the internal list that hold active entries
ActivePositions ==
    {i \in 1..Len(scheduled_recordings) : scheduled_recordings[i].active}

C6_CancelStep ==
    \A index \in -1..MaxSched :
        CancelScheduledRecording(index) =>
            IF 0 <= index /\ index < Cardinality(ActivePositions)
            THEN /\ ret' = "True"
                 /\ Len(scheduled_recordings') = Len(scheduled_recordings)
                 /\ \A i \in 1..Len(scheduled_recordings) :
                      scheduled_recordings'[i] =
                        IF /\ i \in ActivePositions
                           /\ Cardinality({j \in ActivePositions : j < i}) = index
                        THEN [scheduled_recordings[i] EXCEPT !.active = FALSE]
                        ELSE scheduled_recordings[i]
            ELSE /\ ret' = "False"
                 /\ scheduled_recordings' = scheduled_recordings

C6_NeverRevived ==
    \A i \in 1..Len(scheduled_recordings) :
        ~scheduled_recordings[i].active =>
            \A j \in 1..Len(scheduled_recordings') :
                scheduled_recordings'[j].id = scheduled_recordings[i].id =>
                    ~scheduled_recordings'[j].active

C6_StartsOnlyActive ==
    \A t \in NewRecThreads :
        t.origin # 0 =>
            \E i \in 1..Len(scheduled_recordings) :
                /\ scheduled_recordings[i].id = t.origin
                /\ scheduled_recordings[i].active

\* C6: cancel_scheduled_recording(index) with 0 <= index < number of active
\* entries marks inactive exactly the entry at that position of the list of
\* active entries, returns True and leaves the others alone; any other index
\* returns False and changes nothing; an inactive entry never becomes active
\* again and the scheduler starts recordings for active entries only.
C6_Cancel ==
    [][C6_CancelStep /\ C6_NeverRevived /\ C6_StartsOnlyActive]_vars

C6_Reached ==
    /\ ret = "True"
    /\ next_rec = 0
    /\ Len(scheduled_recordings) = 2
    /\ ~scheduled_recordings[1].active
    /\ ~scheduled_recordings[2].active

\* C11: reload() called while current_url is empty returns False and changes
\* nothing; called while it is non-empty it returns True and, once the stop
\* and play workers have finished, the player is playing the URL that was
\* current, current_url is that URL and current_station is the station that
\* was current.
C11_Reload ==
    /\ [][(ReloadStart /\ current_url = "") =>
            /\ ret' = "False"
            /\ UNCHANGED <<coreVars, reloadVars>>]_vars
    /\ [](( /\ reload_pc = "done"
            /\ stop_threads = 0
            /\ LivePlayThreads = 0 ) =>
              /\ state = "PLAYING"
              /\ vlc_url = reload_url
              /\ current_url = reload_url
              /\ current_station = reload_station)

C11_Reached ==
    /\ reload_pc = "done"
    /\ stop_threads = 0
    /\ LivePlayThreads = 0
    /\ reload_station # None
    /\ state = "PLAYING"
    /\ current_url = ""

C12_Returns ==
    \A step \in StepArgs :
        (VolumeUp(step) \/ VolumeDown(step)) => vol_ret' = volume'

C12_Scripts ==
    /\ ScriptVolumeUp =>
          volume' = IF volume + 5 > 100 THEN 100 ELSE volume + 5
    /\ ScriptVolumeDown =>
          volume' = IF volume - 5 < 0 THEN 0 ELSE volume - 5

\* C12: the volume is always within 0..100; volume_up and volume_down return
\* the new volume; the volume scripts change it by exactly 5 clamped to the
\* range, leaving it as it is at 100 (up) and at 0 (down).
C12_VolumeInRange ==
    /\ [](0 <= volume /\ volume <= 100)
    /\ [][C12_Returns /\ C12_Scripts]_vars

C12_Reached ==
    /\ volume = 0
    /\ vol_ret = 0

\* the callbacks the iteration of emit's loop made in this step called
NewCalls ==
    IF emit_cur.on /\ emit_cur'.on
    THEN {emit_cur'.log[i] :
             i \in (Len(emit_cur.log) + 1)..Len(emit_cur'.log)}
    ELSE {}

\* C13: a callback subscribed with the default arguments and not unsubscribed
\* is invoked, with the emitted data, by every later emit of its event type
\* on the enabled bus.
C13_SubscribersInvoked ==
    [][EmitEnd =>
          \A k \in emit_cur.start :
             ( /\ bus_tokens[k].weak
               /\ bus_tokens[k].ev = emit_cur.ev
               /\ ~bus_tokens[k].cancelled ) =>
                  \E i \in 1..Len(emit_cur.log) :
                     /\ emit_cur.log[i].ref = bus_tokens[k].ref
                     /\ emit_cur.log[i].data = emit_cur.data]_vars

C13_Reached ==
    /\ bus_ret = 0
    /\ \E k \in 1..Len(bus_tokens) :
          /\ bus_tokens[k].weak
          /\ bus_tokens[k].ref.dead
          /\ ~bus_tokens[k].cancelled

\* the callables emit called kept away from the list of subscribers
C14_NoCallback ==
    \A i \in 1..Len(emit_cur.log) :
        emit_cur.log[i].ref.obj \in {"ok", "raise"}

\* C14: emit returns the number of callbacks that were called and returned
\* without raising; when the callbacks leave the subscriptions alone these
\* are all the live subscribers of the event type, in order, those after a
\* callback that raised included; with no subscriber it returns 0.
C14_EmitCount ==
    [][EmitEnd =>
          /\ bus_ret' = Cardinality({i \in 1..Len(emit_cur.log) :
                                        emit_cur.log[i].ok})
          /\ C14_NoCallback =>
                LET live == SelectSeq(bus_subs[emit_cur.ev],
                                      LAMBDA r : ~r.dead)
                IN /\ Len(emit_cur.log) = Len(live)
                   /\ \A i \in 1..Len(live) :
                         /\ emit_cur.log[i].ref = live[i]
                         /\ emit_cur.log[i].ok = (live[i].obj # "raise")
                   /\ live = <<>> => bus_ret' = 0]_vars

C14_Reached ==
    /\ emit_cur.on
    /\ Len(emit_cur.log) = 2
    /\ ~emit_cur.log[1].ok
    /\ emit_cur.log[2].ok

\* a callback is called only while one of its subscriptions is not cancelled
C15_CalledOnlySubscribed ==
    \A c \in NewCalls :
        \E k \in 1..Len(bus_tokens) :
            /\ bus_tokens[k].ref = c.ref
            /\ bus_tokens[k].ev = emit_cur.ev
            /\ ~bus_tokens[k].cancelled

\* a cancel function called again changes nothing, and called for the first
\* time takes one element, its own, out of the list of its event type
C15_CancelStep ==
    \A k \in 1..Len(bus_tokens) :
        CancelSub(k) =>
            IF bus_tokens[k].cancelled
            THEN bus_subs' = bus_subs
            ELSE /\ \A e \in EventTypes \ {bus_tokens[k].ev} :
                       bus_subs'[e] = bus_subs[e]
                 /\ bus_subs'[bus_tokens[k].ev] =
                       RemoveFirst(bus_subs[bus_tokens[k].ev],
                                   bus_tokens[k].ref)

\* C15: once its cancel function (or unsubscribe_all) has been called, also
\* from inside a callback during an emit, a callback is not invoked by later
\* emits; calling the cancel function again is harmless and it never removes
\* another subscription.
C15_CancelledNotInvoked ==
    [][C15_CalledOnlySubscribed /\ C15_CancelStep]_vars

\* C15, the part about callbacks that cancel during an emit
C15_CancelInsideEmit ==
    [][C15_CalledOnlySubscribed]_vars

C15_Reached ==
    /\ emit_cur.on
    /\ Len(emit_cur.log) > 0
    /\ \A k \in 1..Len(bus_tokens) : bus_tokens[k].cancelled

\* C16: while the bus is disabled no callback is invoked and emit returns 0,
\* also for an emit running on another thread; disable and enable leave the
\* lists of subscribers as they are.
C16_DisabledIsSilent ==
    [][ /\ NewCalls # {} => bus_enabled
        /\ (EmitEnd /\ ~bus_enabled) => bus_ret' = 0
        /\ (Disable \/ Enable) => bus_subs' = bus_subs ]_vars

C16_Reached ==
    /\ ~bus_enabled
    /\ emit_cur.on
    /\ Len(emit_cur.log) > 0

\* a failure after which _get tries again: a connection error, a timeout or
\* an HTTP status 5xx
C17_Transient(e) ==
    \/ e.kind \in {"connection", "timeout"}
    \/ e.kind = "http" /\ e.status >= 500 /\ e.status <= 599

C17_AttemptStep ==
    \A outcome \in Outcomes, discovered \in ServerLists, choice \in Servers :
        Attempt(outcome, discovered, choice) =>
            /\ (outcome.kind # "ok" /\ C17_Transient(outcome)
                    /\ api_retry < MaxRetries) =>
                  /\ api_pc' = "running"
                  /\ api_retry' = api_retry + 1
                  /\ api_servers' = RotatedServers(discovered)
                  /\ api_base' = RotatedBase(discovered, choice)
                  /\ Len(api_servers') > 1 => api_base' # api_base
            /\ (outcome.kind # "ok" /\ C17_Transient(outcome)
                    /\ api_retry >= MaxRetries) =>
                  /\ api_pc' = "raised"
                  /\ api_err' = outcome
            /\ (outcome.kind = "http" /\ ~C17_Transient(outcome)) =>
                  /\ api_pc' = "raised"
                  /\ api_err' = outcome
                  /\ UNCHANGED <<api_servers, api_base, api_retry>>

C18_LoadedEvents ==
    {k \in 1..Len(plug_emits') : plug_emits'[k].type = "PLUGIN_LOADED"}

C18_LoadStep ==
    \A id \in PluginIds, how \in LoadArgs :
        LoadPlugin(id, how) =>
            /\ id \in LoadedPlugins =>
                  /\ plug_ret' = "True"
                  /\ plug_made' = plug_made
                  /\ plug_onload' = plug_onload
                  /\ plug_plugins' = plug_plugins
                  /\ C18_LoadedEvents = {}
            /\ id \notin plug_classes =>
                  /\ plug_ret' = "False"
                  /\ plug_plugins' = plug_plugins
            /\ (id \notin LoadedPlugins /\ plug_ret' = "True") =>
                  /\ plug_plugins'[id] # 0
                  /\ Cardinality(C18_LoadedEvents) = 1
                  /\ \A k \in C18_LoadedEvents :
                        /\ plug_emits'[k].id = id
                        /\ id \in plug_emits'[k].loaded

\* C18: load_plugin(id) of a loaded plugin returns True, creates no
\* instance, calls no on_load and emits no PLUGIN_LOADED; of an id that was
\* never discovered it returns False and leaves the loaded plugins as they
\* are; a first load that succeeds emits PLUGIN_LOADED exactly once, when
\* the plugin is already registered in _plugins.
C18_LoadPlugin ==
    [][C18_LoadStep]_vars

C18_Reached ==
    /\ plug_ret = "True"
    /\ plug_emits = <<>>
    /\ plug_made = 1
    /\ plug_plugins["alpha"] = 1
    /\ "beta" \notin plug_classes

\* the place of favorite id in a list of ids, 0 when it is not there
C19_Place(ids, id) ==
    IF \E i \in 1..Len(ids) : ids[i] = id
    THEN CHOOSE i \in 1..Len(ids) : ids[i] = id
    ELSE 0

C19_MoveStep ==
    \A id \in FavIds, direction \in Directions :
        MoveFavorite(id, direction) =>
            LET before == IdsOf(GetFavorites)
                after == IdsOf(FavoritesOf(db_favs'))
                idx == C19_Place(before, id)
                inside == /\ idx # 0
                          /\ idx + direction >= 1
                          /\ idx + direction <= Len(before)
            IN  /\ inside =>
                      /\ db_ret' = DbTrue
                      /\ after = SwapAt(before, idx, idx + direction)
                /\ ~inside =>
                      /\ db_ret' = DbFalse
                      /\ after = before
                /\ (/\ db_ret' = DbTrue
                    /\ db_last.op = "move"
                    /\ db_last.id = id
                    /\ db_last.direction = -direction
                    /\ db_last.ret = DbTrue) =>
                      after = db_last.before

\* C19: move_favorite(id, -1 or +1) exchanges the favorite with its
\* neighbour in get_favorites() order and returns True, the other favorites
\* keeping their places; for an unknown id, the first favorite moved up or
\* the last moved down it returns False and the order stays; a move up
\* followed by the move down of the same favorite (or down, then up) gives
\* back the order before the two.
C19_MoveFavorite ==
    [][C19_MoveStep]_vars

C19_Reached ==
    /\ db_last.op = "move"
    /\ db_last.ret = DbTrue
    /\ db_last.id = 2
    /\ db_last.direction = 1
    /\ db_last.before = <<2, 1, 3>>
    /\ IdsOf(GetFavorites) = <<1, 2, 3>>

C20_DeleteStep ==
    \A id \in CatIds, foreign_keys \in BOOLEAN :
        (DeleteCategory(id, foreign_keys) /\ db_ret' = DbTrue) =>
            /\ \A f \in db_favs' : f.category_id # id
            /\ {f.id : f \in db_favs'} = {f.id : f \in db_favs}
            /\ \A f \in db_favs : f.category_id # id => f \in db_favs'
            /\ \A f \in db_favs : f.category_id = id =>
                  [f EXCEPT !.category_id = Null] \in db_favs'

\* C20: after delete_category(id) has returned True no favorite has
\* category_id = id; the favorites of the deleted category are still there
\* with category_id null, and the other favorites are unchanged.
C20_DeleteCategory ==
    [][C20_DeleteStep]_vars

C20_Reached ==
    /\ db_ret = DbTrue
    /\ db_cats = {2}
    /\ db_next_cat = 3
    /\ \E f \in db_favs : f.category_id = 1

\* entry id is in the internal list
C21_Listed(id) ==
    \E i \in 1..Len(scheduled_recordings) : scheduled_recordings[i].id = id

\* entry id is in the internal list, cancelled or past its end_time
C21_Over(id) ==
    \E i \in 1..Len(scheduled_recordings) :
        /\ scheduled_recordings[i].id = id
        /\ \/ ~scheduled_recordings[i].active
           \/ now >= scheduled_recordings[i].end_time

\* the poll stands at an entry whose recording would need one more thread
\* than MaxThreads: behaviours are followed no further than this
C21_Capped ==
    /\ sched_pc = "loop"
    /\ sched_idx <= Len(scheduled_recordings)
    /\ ~ENABLED (\E init_ok \in BOOLEAN : SchedEntry(init_ok))

\* the end of a poll leaves no entry that was inactive, or past its
\* end_time when the poll began
C21_CleanStep ==
    SchedClean =>
        \A i \in 1..Len(scheduled_recordings) :
            (\/ ~scheduled_recordings[i].active
             \/ sched_now >= scheduled_recordings[i].end_time) =>
                \A j \in 1..Len(scheduled_recordings') :
                    scheduled_recordings'[j].id # scheduled_recordings[i].id

\* C21: with the scheduler polling, an entry that is cancelled or past its
\* end_time is eventually out of the internal list, at the latest at the
\* end of the first poll that begins after the cancellation or the
\* end_time; the property scheduled_recordings holds active entries only.
C21_EventuallyRemoved ==
    /\ [][C21_CleanStep]_vars
    /\ [](\A i \in 1..Len(ActiveRecordings) : ActiveRecordings[i].active)
    /\ \A id \in 1..MaxSched :
          C21_Over(id) ~> (~C21_Listed(id) \/ C21_Capped)

C21_Reached ==
    /\ sched_pc = "sleep"
    /\ next_sched >= 2
    /\ scheduled_recordings = <<>>
    /\ now = MaxTime

\* the subscriptions that are neither cancelled nor dead
C22_Live(tokens) ==
    {k \in 1..Len(tokens) : ~tokens[k].cancelled /\ ~tokens[k].ref.dead}

\* subscription k has its reference in the list of its event type
C22_Subscribed(subs, tokens, k) ==
    \E i \in 1..Len(subs[tokens[k].ev]) : subs[tokens[k].ev][i] = tokens[k].ref

C22_EmitEndStep ==
    EmitEnd =>
        /\ \A k \in C22_Live(bus_tokens') :
              C22_Subscribed(bus_subs', bus_tokens', k)
        /\ \A i \in 1..Len(bus_subs'[emit_cur.ev]) :
              ~bus_subs'[emit_cur.ev][i].dead
        /\ \A k \in C22_Live(bus_tokens') :
              (~bus_tokens[k].weak /\ bus_tokens[k].ev = emit_cur.ev) =>
                  \E c \in 1..Len(emit_cur.log) :
                      emit_cur.log[c].ref = bus_tokens[k].ref

\* C22: outside an emit, a subscription made with weak=False that was not
\* unsubscribed is in the list and counted by get_subscriber_count, and an
\* emit of its event type calls it; a dead weak reference is never called
\* and is out of the list after the next emit of its event type; an emit
\* leaves every subscription whose callback is alive in the list.
C22_StrongAndWeak ==
    /\ [](~emit_cur.on =>
            \A k \in C22_Live(bus_tokens) :
                ~bus_tokens[k].weak =>
                    /\ C22_Subscribed(bus_subs, bus_tokens, k)
                    /\ GetSubscriberCount(bus_tokens[k].ev) >= 1)
    /\ [][ /\ C22_EmitEndStep
           /\ \A c \in NewCalls : ~c.ref.dead ]_vars

C22_Reached ==
    /\ ~emit_cur.on
    /\ bus_ret = 1
    /\ \E k \in 1..Len(bus_tokens) :
          /\ ~bus_tokens[k].weak
          /\ ~bus_tokens[k].cancelled
          /\ ~C22_Subscribed(bus_subs, bus_tokens, k)
          /\ GetSubscriberCount(bus_tokens[k].ev) = 1
====
